---- MODULE Spec2Model ----
(***************************************************************************)
(* A model of internal/scheduler/gang_scheduler.go (GangScheduler) of the  *)
(* Armada scheduler.  One round is a sequence of Schedule calls on one     *)
(* GangScheduler; each call is modelled step by step (pc), with the         *)
(* scheduling context, the constraints evaluator and the node database     *)
(* modelled as the collaborators the scheduler calls into.                 *)
(***************************************************************************)
EXTENDS Integers, Sequences, FiniteSets, TLC

----------------------------------------------------------------------------
(* Bounds of the model. *)

\* The Schedule calls of one round, by number.
CallNumbers == {1, 2}
\* Largest gang cardinality (number of JSCs in a gang).
MaxCard == 2

\* ScheduledAtPriority values the node database hands out (MinPriority..).
MaxPriority == 0

\* Number of non-empty values of the uniformity label in the node database's index.
MaxValues == 2

\* Scheduling keys (fingerprints) other than the empty one.
SchedulingKeys == {1, 2}

----------------------------------------------------------------------------
(* Program constants. *)

\* nodedb.MinPriority: the best (lowest) priority the node database schedules at.
MinPriority == -1

\* schedulerobjects.EmptySchedulingKey
EmptySchedulingKey == 0

\* Largest int32: the type of ScheduledAtPriority and of the sum taken over it.
MaxInt32 == 2147483647

Nil == "nil"
\* The id of no job: the value of an absent UnfeasibleSchedulingKeys entry.
NoJob == <<0, 0>>
NoPctx == [present |-> FALSE, NodeId |-> "", ScheduledAtPriority |-> 0]
NoSelector == "<none>"

ReasonMinCardinality == "unable to schedule gang since minimum cardinality not met"
ReasonJobDoesNotFit == "job does not fit on any node"
ReasonGangDoesNotFit == "at least one job in the gang does not fit on any node"
ReasonNotIndexed(label) == "uniformity label " \o label \o " is not indexed"
ReasonNoNodes(label) == "no nodes with uniformity label " \o label

\* Reasons the constraints evaluator gives for a routine not-ok.
ReasonRoundLimit == "maximum resources scheduled"
ReasonGangLimit == "job requests below minimum"

Priorities == MinPriority..MaxPriority

\* Values of the uniformity label: the empty string and MaxValues others.
LabelValues == {""} \cup {ToString(k) : k \in 1..MaxValues}
\* The values the index holds in a round of several calls.
RoundLabelValues == {"", "1"}
Queues == {"A", "B"}
\* Queues with a QueueSchedulingContext in the scheduling context.
QueuesWithContext == {"A"}
UniformityLabels == {"", "zone"}

----------------------------------------------------------------------------
VARIABLES
    pc,                                  \* position of the round / of the Schedule call in progress
    calls,                               \* Schedule calls started so far
    skipUnsuccessfulSchedulingKeyCheck,  \* GangScheduler field
    sctxJobs,                            \* SchedulingContext: ids of the jobs it tracks
    UnfeasibleSchedulingKeys,            \* SchedulingContext: key -> id of the first witnessing JSC (or NoJob)
    limiterReserved,                     \* tokens reserved on SchedulingContext.Limiter
    queueLimiterReserved,                \* tokens reserved on each queue context's Limiter
    nodeDbCommitted,                     \* node db: placements published by committed write txns
    txn,                                 \* the write txn of the attempt in progress
    gctx,                                \* the GangSchedulingContext of the call in progress
    ok, unschedulableReason, err,        \* named results of Schedule / trySchedule
    gangAddedToSchedulingContext,        \* local of Schedule
    remaining, nValues, i, value,        \* range state of the loop over nodeUniformityLabelValues
    bestValue, minMeanScheduledAtPriority,
    fit,                                 \* node db: what ScheduleManyWithTxn answered per selector value
    pre,                                 \* history: scheduling context as it was when the call started
    txnLog,                              \* history: the write txns the call opened and how each ended
    callLog,                             \* history: the calls the Schedule call made, in order
    ctxDone,                             \* the ctx given to Schedule: its Done channel is closed
    doneAt,                              \* history: where the call stood when ctx was cancelled
    repo,                                \* the JobRepository a QueuedJobsIterator loads from
    it,                                  \* QueuedJobsIterator: ctx, err and the channel c
    loader,                              \* the goroutine running queuedJobsIteratorLoader
    mem,                                 \* an InMemoryJobIterator
    multi,                               \* a MultiJobsIterator over mem and it
    consumer,                            \* the caller of Next, with the results it got
    chains,                              \* MultiJobsIterators built over the same three iterators
    yielded,                             \* history: what each of them has returned
    jobsByQueue, jobsById, mu,           \* InMemoryJobRepository
    threads                              \* the goroutines calling the repository's methods

roundVars == <<calls, skipUnsuccessfulSchedulingKeyCheck>>
sctxVars == <<sctxJobs, UnfeasibleSchedulingKeys, limiterReserved, queueLimiterReserved>>
dbVars == <<nodeDbCommitted, txn, fit, txnLog>>
resultVars == <<ok, unschedulableReason, err>>
loopVars == <<remaining, nValues, i, value, bestValue, minMeanScheduledAtPriority>>
ctxVars == <<ctxDone, doneAt>>
\* The state of the job iterators and of the job repository (jobiteration.go).
iteratorVars == <<repo, it, loader, mem, multi, consumer>>
chainVars == <<chains, yielded>>
repoVars == <<jobsByQueue, jobsById, mu, threads>>
jobVars == <<iteratorVars, chainVars, repoVars>>
vars == <<pc, roundVars, sctxVars, dbVars, gctx, resultVars, gangAddedToSchedulingContext,
          loopVars, pre, callLog, ctxVars, jobVars>>

----------------------------------------------------------------------------
(* Data: jobs, JSCs, gangs. *)

\* What a job answers to GetSchedulingKey (key, ok), with the key the scheduling
\* context derives for it when it has none.
JobKeyKinds ==
    [hasKey : {TRUE}, key : SchedulingKeys \cup {EmptySchedulingKey}, derivedKey : {EmptySchedulingKey}]
    \cup [hasKey : {FALSE}, key : {EmptySchedulingKey}, derivedKey : SchedulingKeys \cup {EmptySchedulingKey}]

NewJsc(gang, idx, shouldFail) ==
    [ Job |-> [id |-> <<gang, idx>>],
      ShouldFail |-> shouldFail,
      NodeSelector |-> NoSelector,
      PodSchedulingContext |-> NoPctx,
      UnschedulableReason |-> "" ]

\* The gangs the outer scheduler may hand to the call numbered gang.
GangInputs(gang) ==
    { [ Queue |-> q, AllJobsEvicted |-> e, NodeUniformityLabel |-> l,
        JobSchedulingContexts |-> [j \in 1..n |-> NewJsc(gang, j, sf[j])] ] :
        q \in Queues, e \in BOOLEAN, l \in UniformityLabels,
        n \in 1..MaxCard, sf \in [1..MaxCard -> BOOLEAN] }

\* The gangs of the uniformity search: new gangs with a uniformity label, in the
\* queue with a context.
SearchInputs(gang) ==
    { g \in GangInputs(gang) : /\ g.NodeUniformityLabel # ""
                               /\ g.Queue \in QueuesWithContext
                               /\ ~g.AllJobsEvicted }

NoGctx == [Queue |-> "", AllJobsEvicted |-> FALSE, NodeUniformityLabel |-> "",
           JobSchedulingContexts |-> <<>>]

\* GangSchedulingContext.Cardinality
GangCardinality(g) == Len(g.JobSchedulingContexts)
JobIds(g) == {g.JobSchedulingContexts[j].Job.id : j \in 1..GangCardinality(g)}

\* JobSchedulingContext.IsSuccessful
IsSuccessful(jctx) ==
    /\ jctx.PodSchedulingContext.present
    /\ jctx.PodSchedulingContext.NodeId # ""
    /\ jctx.UnschedulableReason = ""

----------------------------------------------------------------------------
(* The collaborators: scheduling context, constraints, node database. *)

\* SchedulingContext.AddGangSchedulingContext: tracks every job of the gang
\* (a job already tracked is left as it is).
AddGangSchedulingContext(jobs, g) == jobs \cup JobIds(g)

\* SchedulingContext.EvictGang: stops tracking the jobs given.
EvictGang(jobs, ids) == jobs \ ids

\* SchedulingContext.EvictJob: stops tracking one job.
EvictJob(jobs, id) == jobs \ {id}

\* SchedulingContext.SchedulingKeyFromLegacySchedulerJob
SchedulingKeyFromLegacySchedulerJob(kind) == kind.derivedKey

\* Results of CheckRoundConstraints and CheckConstraints: ok, a routine not-ok
\* with a reason, or an internal error.
ConstraintOutcomes(reason, e) ==
    { [ok |-> TRUE, reason |-> "", err |-> Nil],
      [ok |-> FALSE, reason |-> reason, err |-> Nil],
      [ok |-> FALSE, reason |-> "", err |-> e] }

BoundPctx(p) == [present |-> TRUE, NodeId |-> "node", ScheduledAtPriority |-> p]
UnboundPctx == [present |-> TRUE, NodeId |-> "", ScheduledAtPriority |-> 0]

\* What ScheduleManyWithTxn may answer for a gang of n jobs: an error (JSCs
\* untouched), a no-fit that leaves the bindings made before the job that did
\* not fit, or ok with every job bound at some priority.  An ok answer that
\* leaves the first JSC without a PodSchedulingContext is included because
\* meanScheduledAtPriorityFromGctx provides for it.
ScheduleManyOutcomes(n) ==
    { [ok |-> FALSE, err |-> "errNodeDb", pctxs |-> <<>>] }
    \cup { [ok |-> FALSE, err |-> Nil,
            pctxs |-> [j \in 1..n |-> IF j < n THEN BoundPctx(MinPriority) ELSE UnboundPctx]] }
    \cup { [ok |-> TRUE, err |-> Nil, pctxs |-> [j \in 1..n |-> BoundPctx(ps[j])]] :
             ps \in {qs \in [1..n -> Priorities] : \A j \in 1..(n-1) : qs[j] <= qs[j+1]} }
    \cup { [ok |-> TRUE, err |-> Nil,
            pctxs |-> [j \in 1..n |-> IF j = 1 THEN NoPctx ELSE BoundPctx(MinPriority)]] }

Unknown == [ok |-> FALSE, err |-> "unknown", pctxs |-> <<>>]

\* NodeDb.ScheduleManyWithTxn's effect on the JSCs.
ScheduleManyWithTxn(jctxs, out) ==
    IF out.err # Nil THEN jctxs
    ELSE [j \in 1..Len(jctxs) |-> [jctxs[j] EXCEPT !.PodSchedulingContext = out.pctxs[j]]]

----------------------------------------------------------------------------
(* Helpers of the gang scheduler (pure). *)

\* int32 addition, wrapping around on overflow (sum += ... on an int32).
Add32(a, b) ==
    IF b > 0 /\ a > MaxInt32 - b THEN (a - MaxInt32 - 1) + (b - MaxInt32 - 1)
    ELSE IF b < 0 /\ a < (-MaxInt32 - 1) - b THEN (a + MaxInt32 + 1) + (b + MaxInt32 + 1)
    ELSE a + b

SeqSum32(f, n) ==
    LET RECURSIVE S(_)
        S(k) == IF k = 0 THEN 0 ELSE Add32(S(k-1), f[k])
    IN S(n)

clearNodeBindings(jctx) ==
    IF jctx.PodSchedulingContext.present
    THEN [jctx EXCEPT !.PodSchedulingContext.NodeId = ""]
    ELSE jctx

addNodeSelectorToGctx(jctxs, nodeSelectorValue) ==
    [j \in 1..Len(jctxs) |-> [jctxs[j] EXCEPT !.NodeSelector = nodeSelectorValue]]

\* var minMeanScheduledAtPriority float64 (zero), and the (0, false) of no mean.
ZeroMean == [ok |-> TRUE, sum |-> 0, n |-> 1]
NoMean == [ok |-> FALSE, sum |-> 0, n |-> 1]

\* The mean as the pair (sum, cardinality): float64(sum) / float64(Cardinality()).
meanScheduledAtPriorityFromGctx(jctxs) ==
    IF \E j \in 1..Len(jctxs) : ~jctxs[j].PodSchedulingContext.present
    THEN NoMean
    ELSE [ok |-> TRUE,
          sum |-> SeqSum32([j \in 1..Len(jctxs) |-> jctxs[j].PodSchedulingContext.ScheduledAtPriority],
                           Len(jctxs)),
          n |-> Len(jctxs)]

\* Mutant of MeanIsMinPriority: the sum, not the mean, compared with MinPriority.
SumIsMinPriority(m) == m.sum = MinPriority

\* meanScheduledAtPriority == float64(nodedb.MinPriority)
MeanIsMinPriority(m) == m.sum = MinPriority * m.n
\* Mutant of MeanLeq: < for <=.
MeanLess(a, b) == a.sum * b.n < b.sum * a.n

\* meanScheduledAtPriority <= minMeanScheduledAtPriority
MeanLeq(a, b) == a.sum * b.n <= b.sum * a.n

\* Mutant of NoFitReason: >= 1 for > 1.
NoFitReasonFromOne(n) == IF n >= 1 THEN ReasonMinCardinality ELSE ReasonJobDoesNotFit

\* The reason tryScheduleGangWithTxn gives when ScheduleManyWithTxn is not ok.
NoFitReason(n) == IF n > 1 THEN ReasonMinCardinality ELSE ReasonJobDoesNotFit

\* Mutant of FailIfShouldFail: the reason is set but the node binding is kept.
FailIfShouldFailKeepingBinding(jctx) ==
    IF jctx.ShouldFail
    THEN [jctx EXCEPT !.UnschedulableReason = ReasonJobDoesNotFit]
    ELSE jctx

\* What tryScheduleGangWithTxn does to a JSC once the gang has scheduled.
FailIfShouldFail(jctx) ==
    IF jctx.ShouldFail
    THEN [clearNodeBindings(jctx) EXCEPT !.UnschedulableReason = ReasonJobDoesNotFit]
    ELSE jctx

\* tryScheduleGangWithTxn, given what ScheduleManyWithTxn answers (out).
tryScheduleGangWithTxn(jctxs, out) ==
    LET after == ScheduleManyWithTxn(jctxs, out) IN
    IF out.err # Nil
    THEN [ok |-> out.ok, reason |-> "", err |-> out.err, jctxs |-> after]
    ELSE IF ~out.ok
    THEN [ok |-> FALSE, reason |-> NoFitReason(Len(jctxs)), err |-> Nil,
          jctxs |-> [j \in 1..Len(after) |-> clearNodeBindings(after[j])]]
    ELSE [ok |-> TRUE, reason |-> "", err |-> Nil,
          jctxs |-> [j \in 1..Len(after) |-> FailIfShouldFail(after[j])]]

\* Mutants of CommitsGangTxn: the ok test dropped; the error test inverted; no test.
CommitsGangTxnWithoutOk(r) == r.err = Nil
CommitsGangTxnOnError(r) == r.ok /\ r.err # Nil
CommitsGangTxnAlways(r) == TRUE

\* tryScheduleGang commits its txn on this condition (and aborts it otherwise).
CommitsGangTxn(r) == r.ok /\ r.err = Nil

\* Mutant of ReservesTokens: the AllJobsEvicted test dropped.
ReservesTokensForEvicted(isOk, g) == isOk

\* The deferred bookkeeping reserves limiter tokens on this condition.
ReservesTokens(isOk, g) == isOk /\ ~g.AllJobsEvicted

\* Mutant of RegistersSchedulingKey: the cardinality test dropped.
RegistersSchedulingKeyOfAnyGang(skip, g) == ~skip

\* updateGangSchedulingContextOnFailure registers the scheduling key on this condition.
RegistersSchedulingKey(skip, g) == ~skip /\ GangCardinality(g) = 1

\* The scheduling key updateGangSchedulingContextOnFailure looks up for a job.
SchedulingKeyOf(kind) ==
    IF kind.hasKey THEN kind.key ELSE SchedulingKeyFromLegacySchedulerJob(kind)

----------------------------------------------------------------------------
(* State. *)

Call(op, v, isOk, n, e) == [op |-> op, value |-> v, ok |-> isOk, n |-> n, err |-> e]

Snapshot ==
    [ sctxJobs |-> sctxJobs, UnfeasibleSchedulingKeys |-> UnfeasibleSchedulingKeys,
      limiterReserved |-> limiterReserved, queueLimiterReserved |-> queueLimiterReserved,
      nodeDbCommitted |-> nodeDbCommitted,
      skipUnsuccessfulSchedulingKeyCheck |-> skipUnsuccessfulSchedulingKeyCheck ]

\* ctx has not been cancelled.
NotCancelled == [pc |-> "", txns |-> 0]

NoFit == [v \in LabelValues \cup RoundLabelValues \cup {NoSelector} |-> Unknown]

\* The state after NewGangScheduler, with earlier calls of the round already made.
InitAfter(earlier) ==
    /\ pc = "idle"
    /\ calls = earlier
    /\ skipUnsuccessfulSchedulingKeyCheck = FALSE
    /\ sctxJobs = {}
    /\ UnfeasibleSchedulingKeys = [k \in SchedulingKeys |-> NoJob]
    /\ limiterReserved = 0
    /\ queueLimiterReserved = [q \in QueuesWithContext |-> 0]
    /\ nodeDbCommitted = <<>>
    /\ txn = "none"
    /\ fit = NoFit
    /\ txnLog = <<>>
    /\ gctx = NoGctx
    /\ ok = FALSE
    /\ unschedulableReason = ""
    /\ err = Nil
    /\ gangAddedToSchedulingContext = FALSE
    /\ remaining = {}
    /\ nValues = 0
    /\ i = 0
    /\ value = ""
    /\ bestValue = ""
    /\ minMeanScheduledAtPriority = ZeroMean
    /\ pre = Snapshot
    /\ callLog = <<>>
    /\ ctxDone = FALSE
    /\ doneAt = NotCancelled

\* No QueuedJobsIterator has been made.
NoIterator ==
    /\ repo = [jobIds |-> <<>>, nulls |-> {}, failAt |-> 0, requests |-> <<>>]
    /\ it = [ctxDone |-> FALSE, err |-> Nil, c |-> <<>>, closed |-> FALSE]
    /\ loader = [pc |-> "none", i |-> 0, batch |-> <<>>, jobs |-> <<>>, k |-> 0, ret |-> Nil]
    /\ mem = [i |-> 0, jobs |-> <<>>]
    /\ multi = [i |-> 0, its |-> <<>>]
    /\ consumer = [pc |-> "none", results |-> <<>>, queued |-> <<>>]

\* No MultiJobsIterator over in-memory iterators has been made.
NoChains ==
    /\ chains = <<>>
    /\ yielded = <<>>

\* No InMemoryJobRepository has been made.
NoRepository ==
    /\ jobsByQueue = <<>>
    /\ jobsById = {}
    /\ mu = 0
    /\ threads = <<>>

Init == InitAfter(0) /\ NoIterator /\ NoChains /\ NoRepository

Logged(c) == callLog' = Append(callLog, c)

\* txn.Commit() / txn.Abort() on the open txn: its fate is recorded, and a
\* commit publishes the gang's placement to the transactions that follow.
Commit(v, schedOk, mean) ==
    /\ txn' = "committed"
    /\ nodeDbCommitted' = Append(nodeDbCommitted, [gang |-> calls, value |-> v])
    /\ txnLog' = [txnLog EXCEPT ![Len(txnLog)] =
                      [@ EXCEPT !.ok = schedOk, !.mean = mean, !.end = "commit"]]

Abort(v, schedOk, mean) ==
    /\ txn' = "aborted"
    /\ UNCHANGED nodeDbCommitted
    /\ txnLog' = [txnLog EXCEPT ![Len(txnLog)] =
                      [@ EXCEPT !.ok = schedOk, !.mean = mean, !.end = "abort"]]

\* nodeDb.Txn(true)
Txn(v, by) ==
    /\ txn' = "open"
    /\ txnLog' = Append(txnLog, [by |-> by, value |-> v, ok |-> FALSE, mean |-> NoMean,
                                 end |-> "open"])
    /\ UNCHANGED <<nodeDbCommitted, fit>>

----------------------------------------------------------------------------
(* GangScheduler.SkipUnsuccessfulSchedulingKeyCheck *)

SkipUnsuccessfulSchedulingKeyCheck ==
    /\ pc = "idle"
    /\ skipUnsuccessfulSchedulingKeyCheck' = TRUE
    /\ UNCHANGED <<ctxVars, jobVars, pc, calls, sctxVars, dbVars, gctx, resultVars,
                   gangAddedToSchedulingContext, loopVars, pre, callLog>>

----------------------------------------------------------------------------
(* GangScheduler.Schedule *)

\* The outer scheduler calls Schedule with a freshly built gang.
ScheduleCall(inputs) ==
    /\ pc = "idle"
    /\ calls + 1 \in CallNumbers
    /\ \E g \in inputs : gctx' = g
    /\ calls' = calls + 1
    /\ pre' = Snapshot
    /\ pc' = "round"
    /\ UNCHANGED <<ctxVars, jobVars, skipUnsuccessfulSchedulingKeyCheck, sctxVars, dbVars, resultVars,
                   gangAddedToSchedulingContext, loopVars, callLog>>

\* Mutant of RoundGateReturns: only an error turns the gang away.
RoundGateReturnsOnError(r) == r.err # Nil

\* Line 104: err != nil || !ok.
RoundGateReturns(r) == r.err # Nil \/ ~r.ok

\* Lines 103-107: the round gate, for a new gang only.
CheckRoundConstraints ==
    /\ pc = "round"
    /\ \/ /\ gctx.AllJobsEvicted
          /\ pc' = "add"
          /\ UNCHANGED <<resultVars, callLog>>
       \/ /\ ~gctx.AllJobsEvicted
          /\ \E r \in ConstraintOutcomes(ReasonRoundLimit, "errRoundConstraints") :
                /\ ok' = r.ok
                /\ unschedulableReason' = r.reason
                /\ err' = r.err
                /\ Logged(Call("CheckRoundConstraints", "", r.ok, 0, r.err))
                /\ pc' = IF RoundGateReturns(r) THEN "returned" ELSE "add"
    /\ UNCHANGED <<ctxVars, jobVars, roundVars, sctxVars, dbVars, gctx, gangAddedToSchedulingContext,
                   loopVars, pre>>

\* Lines 132-135: provisional admission.
AddGang ==
    /\ pc = "add"
    /\ \/ /\ err' = "errAddGang"
          /\ Logged(Call("AddGangSchedulingContext", "", FALSE, 0, "errAddGang"))
          /\ pc' = "defer"
          /\ UNCHANGED <<sctxJobs, gangAddedToSchedulingContext>>
       \/ /\ sctxJobs' = AddGangSchedulingContext(sctxJobs, gctx)
          /\ gangAddedToSchedulingContext' = TRUE
          /\ Logged(Call("AddGangSchedulingContext", "", TRUE, 0, Nil))
          /\ pc' = "constraints"
          /\ UNCHANGED err
    /\ UNCHANGED <<ctxVars, jobVars, roundVars, UnfeasibleSchedulingKeys, limiterReserved, queueLimiterReserved,
                   dbVars, gctx, ok, unschedulableReason, loopVars, pre>>

\* Lines 136-142: the gang constraints, for a new gang only.
CheckConstraints ==
    /\ pc = "constraints"
    /\ \/ /\ gctx.AllJobsEvicted
          /\ pc' = "trySchedule"
          /\ UNCHANGED <<resultVars, callLog>>
       \/ /\ ~gctx.AllJobsEvicted
          /\ \E r \in ConstraintOutcomes(ReasonGangLimit, "errConstraints") :
                /\ ok' = r.ok
                /\ unschedulableReason' = r.reason
                /\ err' = r.err
                /\ Logged(Call("CheckConstraints", "", r.ok, 0, r.err))
                /\ pc' = IF r.err # Nil \/ ~r.ok THEN "defer" ELSE "trySchedule"
    /\ UNCHANGED <<ctxVars, jobVars, roundVars, sctxVars, dbVars, gctx, gangAddedToSchedulingContext,
                   loopVars, pre>>

----------------------------------------------------------------------------
(* GangScheduler.trySchedule *)

\* Lines 147-168: dispatch on the uniformity label and look its values up.
trySchedule(values) ==
    /\ pc = "trySchedule"
    /\ \/ /\ gctx.NodeUniformityLabel = ""
          /\ pc' = "gang"
          /\ UNCHANGED <<resultVars, loopVars, callLog>>
       \/ /\ gctx.NodeUniformityLabel # ""
          /\ \E indexed \in BOOLEAN, vals \in SUBSET values :
                /\ ~indexed => vals = {}
                /\ Logged(Call("IndexedNodeLabelValues", gctx.NodeUniformityLabel, indexed,
                               Cardinality(vals), Nil))
                /\ IF ~indexed
                   THEN /\ ok' = FALSE
                        /\ unschedulableReason' = ReasonNotIndexed(gctx.NodeUniformityLabel)
                        /\ pc' = "defer"
                        /\ UNCHANGED loopVars
                   ELSE IF Cardinality(vals) = 0
                   THEN /\ ok' = FALSE
                        /\ unschedulableReason' = ReasonNoNodes(gctx.NodeUniformityLabel)
                        /\ pc' = "defer"
                        /\ UNCHANGED loopVars
                   ELSE /\ ok' = TRUE
                        /\ remaining' = vals
                        /\ nValues' = Cardinality(vals)
                        /\ i' = 0
                        /\ bestValue' = ""
                        /\ minMeanScheduledAtPriority' = ZeroMean
                        /\ pc' = "loop"
                        /\ UNCHANGED <<unschedulableReason, value>>
          /\ UNCHANGED err
    /\ UNCHANGED <<ctxVars, jobVars, roundVars, sctxVars, dbVars, gctx, gangAddedToSchedulingContext, pre>>

\* Lines 169-175: the range over the value set yields the next value, in any
\* order; an empty value is skipped, any other is selected and a txn opened.
LoopNext ==
    /\ pc = "loop"
    /\ \/ /\ remaining = {}
          /\ pc' = "afterLoop"
          /\ UNCHANGED <<loopVars, gctx, dbVars, callLog>>
       \/ \E v \in remaining :
            /\ remaining' = remaining \ {v}
            /\ i' = i + 1
            /\ value' = v
            /\ UNCHANGED <<nValues, bestValue, minMeanScheduledAtPriority>>
            /\ IF v = ""
               THEN /\ pc' = "loop"
                    /\ UNCHANGED <<gctx, dbVars, callLog>>
               ELSE /\ gctx' = [gctx EXCEPT !.JobSchedulingContexts =
                                    addNodeSelectorToGctx(gctx.JobSchedulingContexts, v)]
                    /\ Txn(v, "trySchedule")
                    /\ Logged(Call("Txn", v, TRUE, 0, Nil))
                    /\ pc' = "attempt"
    /\ UNCHANGED <<ctxVars, jobVars, roundVars, sctxVars, resultVars, gangAddedToSchedulingContext, pre>>

\* Line 190: the attempt becomes the best so far.
IsNewBest(m) == bestValue = "" \/ MeanLeq(m, minMeanScheduledAtPriority)

\* Line 191: no more options after this one.
IsLastValue == i = nValues

\* Lines 176-201: one attempt of the uniformity search.
LoopAttempt ==
    /\ pc = "attempt"
    /\ \E out \in ScheduleManyOutcomes(GangCardinality(gctx)) :
        LET r == tryScheduleGangWithTxn(gctx.JobSchedulingContexts, out)
            m == IF r.err = Nil /\ r.ok THEN meanScheduledAtPriorityFromGctx(r.jctxs) ELSE NoMean
            commit == /\ r.err = Nil /\ r.ok /\ m.ok
                      /\ (MeanIsMinPriority(m) \/ (IsNewBest(m) /\ IsLastValue))
        IN
        /\ fit' = [fit EXCEPT ![value] = out]
        /\ gctx' = [gctx EXCEPT !.JobSchedulingContexts = r.jctxs]
        /\ IF commit
           THEN /\ Commit(value, out.ok, m)
                /\ callLog' = callLog \o <<Call("ScheduleManyWithTxn", value, out.ok, 0, out.err),
                                           Call("Commit", value, TRUE, 0, Nil)>>
                /\ ok' = TRUE
                /\ unschedulableReason' = ""
                /\ err' = Nil
                /\ pc' = "defer"
                /\ UNCHANGED <<bestValue, minMeanScheduledAtPriority>>
           ELSE /\ Abort(value, out.ok, m)
                /\ callLog' = callLog \o <<Call("ScheduleManyWithTxn", value, out.ok, 0, out.err),
                                           Call("Abort", value, TRUE, 0, Nil)>>
                /\ ok' = r.ok
                /\ unschedulableReason' = r.reason
                /\ err' = r.err
                /\ pc' = IF r.err # Nil THEN "defer" ELSE "loop"
                /\ IF r.err = Nil /\ r.ok /\ m.ok /\ IsNewBest(m)
                   THEN /\ bestValue' = value
                        /\ minMeanScheduledAtPriority' = m
                   ELSE UNCHANGED <<bestValue, minMeanScheduledAtPriority>>
    /\ UNCHANGED <<ctxVars, jobVars, roundVars, sctxVars, gangAddedToSchedulingContext,
                   remaining, nValues, i, value, pre>>

\* Lines 203-209: after the loop.
AfterLoop ==
    /\ pc = "afterLoop"
    /\ IF bestValue = ""
       THEN /\ ok' = FALSE
            /\ unschedulableReason' = ReasonGangDoesNotFit
            /\ pc' = "defer"
            /\ UNCHANGED gctx
       ELSE /\ gctx' = [gctx EXCEPT !.JobSchedulingContexts =
                            addNodeSelectorToGctx(gctx.JobSchedulingContexts, bestValue)]
            /\ pc' = "gang"
            /\ UNCHANGED <<ok, unschedulableReason>>
    /\ UNCHANGED <<ctxVars, jobVars, roundVars, sctxVars, dbVars, err, gangAddedToSchedulingContext,
                   loopVars, pre, callLog>>

----------------------------------------------------------------------------
(* GangScheduler.tryScheduleGang *)

\* The selector value the gang's JSCs carry for the uniformity label.
SelectedValue == gctx.JobSchedulingContexts[1].NodeSelector

\* Line 213: open the txn (its Abort is deferred).
tryScheduleGang ==
    /\ pc = "gang"
    /\ Txn(SelectedValue, "tryScheduleGang")
    /\ Logged(Call("Txn", SelectedValue, TRUE, 0, Nil))
    /\ pc' = "gangAttempt"
    /\ UNCHANGED <<ctxVars, jobVars, roundVars, sctxVars, gctx, resultVars, gangAddedToSchedulingContext,
                   loopVars, pre>>

\* What the node db may answer to the attempt of tryScheduleGang: anything when
\* no value was tried before; after the uniformity search, what it answered for
\* bestValue on the same (aborted, hence unchanged) snapshot, or an error.
GangAttemptOutcomes ==
    IF fit[SelectedValue] = Unknown
    THEN ScheduleManyOutcomes(GangCardinality(gctx))
    ELSE {fit[SelectedValue], [ok |-> FALSE, err |-> "errNodeDb", pctxs |-> <<>>]}

\* Lines 215-219, and the deferred Abort of line 214.
tryScheduleGangAttempt ==
    /\ pc = "gangAttempt"
    /\ \E out \in GangAttemptOutcomes :
        LET r == tryScheduleGangWithTxn(gctx.JobSchedulingContexts, out)
            m == IF r.err = Nil /\ r.ok THEN meanScheduledAtPriorityFromGctx(r.jctxs) ELSE NoMean
        IN
        /\ fit' = [fit EXCEPT ![SelectedValue] = out]
        /\ gctx' = [gctx EXCEPT !.JobSchedulingContexts = r.jctxs]
        /\ ok' = r.ok
        /\ unschedulableReason' = r.reason
        /\ err' = r.err
        /\ IF CommitsGangTxn(r)
           THEN /\ Commit(SelectedValue, out.ok, m)
                /\ callLog' = callLog \o <<Call("ScheduleManyWithTxn", SelectedValue, out.ok, 0, out.err),
                                           Call("Commit", SelectedValue, TRUE, 0, Nil),
                                           Call("Abort", SelectedValue, FALSE, 0, Nil)>>
           ELSE /\ Abort(SelectedValue, out.ok, m)
                /\ callLog' = callLog \o <<Call("ScheduleManyWithTxn", SelectedValue, out.ok, 0, out.err),
                                           Call("Abort", SelectedValue, TRUE, 0, Nil)>>
    /\ pc' = "defer"
    /\ UNCHANGED <<ctxVars, jobVars, roundVars, sctxVars, gangAddedToSchedulingContext, loopVars, pre>>

----------------------------------------------------------------------------
(* The deferred bookkeeping of Schedule (lines 111-130). *)

\* Lines 118-123: Limiter.ReserveN on the global limiter and on the queue's.
ReserveTokens ==
    IF ReservesTokens(ok, gctx)
    THEN [ global |-> limiterReserved + GangCardinality(gctx),
           queue |-> IF gctx.Queue \in QueuesWithContext
                     THEN [queueLimiterReserved EXCEPT ![gctx.Queue] = @ + GangCardinality(gctx)]
                     ELSE queueLimiterReserved,
           log |-> <<Call("ReserveN", "global", TRUE, GangCardinality(gctx), Nil)>>
                   \o IF gctx.Queue \in QueuesWithContext
                      THEN <<Call("ReserveN", gctx.Queue, TRUE, GangCardinality(gctx), Nil)>>
                      ELSE <<>> ]
    ELSE [global |-> limiterReserved, queue |-> queueLimiterReserved, log |-> <<>>]

\* Mutant of EvictedOnSuccess: every member is evicted.
EvictedOnSuccessAll(jctxs, failAt) ==
    LET all == [j \in 1..Len(jctxs) |-> j]
    IN IF failAt = 0 THEN all ELSE SubSeq(all, 1, failAt)

\* The JSCs updateGangSchedulingContextOnSuccess evicts, in order, when the
\* EvictJob of the failAt-th of them fails (failAt = 0: none fails).
EvictedOnSuccess(jctxs, failAt) ==
    LET unsuccessful == SelectSeq([j \in 1..Len(jctxs) |-> j],
                                  LAMBDA j : ~IsSuccessful(jctxs[j]))
    IN IF failAt = 0 THEN unsuccessful ELSE SubSeq(unsuccessful, 1, failAt)

RECURSIVE EvictAll(_, _, _)
EvictAll(jobs, jctxs, idxs) ==
    IF idxs = <<>> THEN jobs
    ELSE EvictAll(EvictJob(jobs, jctxs[Head(idxs)].Job.id), jctxs, Tail(idxs))

\* updateGangSchedulingContextOnSuccess (lines 42-60).
updateGangSchedulingContextOnSuccess ==
    IF ~gangAddedToSchedulingContext
    THEN /\ UNCHANGED <<sctxJobs, err>>
         /\ callLog' = callLog \o ReserveTokens.log
    ELSE \E failAt \in 0..Len(EvictedOnSuccess(gctx.JobSchedulingContexts, 0)) :
            LET idxs == EvictedOnSuccess(gctx.JobSchedulingContexts, failAt)
                done == IF failAt = 0 THEN idxs ELSE SubSeq(idxs, 1, failAt - 1)
            IN
            /\ sctxJobs' = EvictAll(sctxJobs, gctx.JobSchedulingContexts, done)
            /\ err' = IF failAt = 0 THEN Nil ELSE "errEvictJob"
            /\ callLog' = callLog \o ReserveTokens.log
                            \o [k \in 1..Len(idxs) |->
                                  Call("EvictJob", "", failAt = 0 \/ k < failAt, idxs[k],
                                       IF failAt = 0 \/ k < failAt THEN Nil ELSE "errEvictJob")]

\* Mutant of WithUnschedulableReason: only the first JSC gets the reason.
WithUnschedulableReasonOnFirst(jctxs, reason) ==
    [j \in 1..Len(jctxs) |->
        IF j = 1 THEN [jctxs[j] EXCEPT !.UnschedulableReason = reason] ELSE jctxs[j]]

\* Line 74: every JSC gets the reason of the gang.
WithUnschedulableReason(jctxs, reason) ==
    [j \in 1..Len(jctxs) |-> [jctxs[j] EXCEPT !.UnschedulableReason = reason]]

\* Lines 84-89: the keys a failure may register, if any: that of the first JSC's
\* job, whatever the job answers to GetSchedulingKey.
KeysToRegister ==
    IF RegistersSchedulingKey(skipUnsuccessfulSchedulingKeyCheck, gctx)
    THEN {SchedulingKeyOf(kind) : kind \in JobKeyKinds}
    ELSE {EmptySchedulingKey}

\* Lines 90-95: keep the first jctx for each unfeasible scheduling key.
RegisterKey(keys, k, id) ==
    IF k # EmptySchedulingKey /\ keys[k] = NoJob THEN [keys EXCEPT ![k] = id] ELSE keys

\* updateGangSchedulingContextOnFailure (lines 62-99).
updateGangSchedulingContextOnFailure ==
    \/ /\ gangAddedToSchedulingContext
       /\ err' = "errEvictGang"
       /\ callLog' = callLog \o ReserveTokens.log \o <<Call("EvictGang", "", FALSE, 0, "errEvictGang")>>
       /\ UNCHANGED <<sctxJobs, UnfeasibleSchedulingKeys, gctx>>
    \/ LET evicted == IF gangAddedToSchedulingContext
                      THEN EvictGang(sctxJobs, JobIds(gctx)) ELSE sctxJobs
           evictLog == IF gangAddedToSchedulingContext
                       THEN <<Call("EvictGang", "", TRUE, 0, Nil)>> ELSE <<>>
       IN
       /\ gctx' = [gctx EXCEPT !.JobSchedulingContexts =
                        WithUnschedulableReason(gctx.JobSchedulingContexts, unschedulableReason)]
       /\ \/ /\ err' = "errReAddGang"
             /\ sctxJobs' = evicted
             /\ callLog' = callLog \o ReserveTokens.log \o evictLog
                             \o <<Call("SetUnschedulableReason", unschedulableReason, TRUE, 0, Nil),
                                  Call("AddGangSchedulingContext", "", FALSE, 0, "errReAddGang")>>
             /\ UNCHANGED UnfeasibleSchedulingKeys
          \/ \E k \in KeysToRegister :
             /\ err' = Nil
             /\ sctxJobs' = AddGangSchedulingContext(evicted, gctx)
             /\ UnfeasibleSchedulingKeys' =
                    RegisterKey(UnfeasibleSchedulingKeys, k, gctx.JobSchedulingContexts[1].Job.id)
             /\ callLog' = callLog \o ReserveTokens.log \o evictLog
                             \o <<Call("SetUnschedulableReason", unschedulableReason, TRUE, 0, Nil),
                                  Call("AddGangSchedulingContext", "", TRUE, 0, Nil)>>
                             \o IF RegistersSchedulingKey(skipUnsuccessfulSchedulingKeyCheck, gctx)
                                THEN <<Call("GetSchedulingKey", "", TRUE, k, Nil)>> ELSE <<>>

\* Mutant of SkipsBookkeeping: the bookkeeping runs whatever the error.
NeverSkipsBookkeeping(e) == FALSE

\* Lines 113-115: do nothing if an error occurred.
SkipsBookkeeping(e) == e # Nil

\* The deferred function: nothing after an error, else limiters and scheduling context.
DeferredBookkeeping ==
    /\ pc = "defer"
    /\ pc' = "returned"
    /\ IF SkipsBookkeeping(err)
       THEN UNCHANGED <<sctxVars, gctx, err, callLog>>
       ELSE /\ limiterReserved' = ReserveTokens.global
            /\ queueLimiterReserved' = ReserveTokens.queue
            /\ IF ok
               THEN /\ updateGangSchedulingContextOnSuccess
                    /\ UNCHANGED <<UnfeasibleSchedulingKeys, gctx>>
               ELSE updateGangSchedulingContextOnFailure
    /\ UNCHANGED <<ctxVars, jobVars, roundVars, dbVars, ok, unschedulableReason,
                   gangAddedToSchedulingContext, loopVars, pre>>

\* Schedule has returned (ok, unschedulableReason, err); the gang is discarded.
Return ==
    /\ pc = "returned"
    /\ pc' = "idle"
    /\ gctx' = NoGctx
    /\ ok' = FALSE
    /\ unschedulableReason' = ""
    /\ err' = Nil
    /\ gangAddedToSchedulingContext' = FALSE
    /\ remaining' = {}
    /\ nValues' = 0
    /\ i' = 0
    /\ value' = ""
    /\ bestValue' = ""
    /\ minMeanScheduledAtPriority' = ZeroMean
    /\ txn' = "none"
    /\ fit' = NoFit
    /\ txnLog' = <<>>
    /\ callLog' = <<>>
    /\ pre' = Snapshot
    /\ UNCHANGED <<ctxVars, jobVars, roundVars, sctxVars, nodeDbCommitted>>

----------------------------------------------------------------------------
(* A round of Schedule calls. *)

Next ==
    \/ SkipUnsuccessfulSchedulingKeyCheck
    \/ ScheduleCall(GangInputs(calls + 1))
    \/ CheckRoundConstraints
    \/ AddGang
    \/ CheckConstraints
    \/ trySchedule(RoundLabelValues)
    \/ LoopNext
    \/ LoopAttempt
    \/ AfterLoop
    \/ tryScheduleGang
    \/ tryScheduleGangAttempt
    \/ DeferredBookkeeping
    \/ Return

Spec == Init /\ [][Next]_vars

(* The last call of a round whose earlier calls were turned away at the round
   gate, for a gang with a uniformity label, over every value set and order. *)

InitSearch ==
    InitAfter(Cardinality(CallNumbers) - 1) /\ NoIterator /\ NoChains /\ NoRepository

NextSearch ==
    \/ SkipUnsuccessfulSchedulingKeyCheck
    \/ ScheduleCall(SearchInputs(calls + 1))
    \/ CheckRoundConstraints
    \/ AddGang
    \/ CheckConstraints
    \/ trySchedule(LabelValues)
    \/ LoopNext
    \/ LoopAttempt
    \/ AfterLoop
    \/ tryScheduleGang
    \/ tryScheduleGangAttempt
    \/ DeferredBookkeeping
    \/ Return

SpecSearch == InitSearch /\ [][NextSearch]_vars

(* The same call, with a caller that may cancel the ctx it gave to Schedule at
   any moment.  Schedule hands ctx on to trySchedule, tryScheduleGang and
   tryScheduleGangWithTxn (lines 142, 148, 176, 209, 215); none of them reads it
   (tryScheduleGangWithTxn names it _, line 229) and ScheduleManyWithTxn is not
   given it (line 230). *)

CancelCtx ==
    /\ ~ctxDone
    /\ ctxDone' = TRUE
    /\ doneAt' = [pc |-> pc, txns |-> Len(txnLog)]
    /\ UNCHANGED <<pc, roundVars, sctxVars, dbVars, gctx, resultVars,
                   gangAddedToSchedulingContext, loopVars, pre, callLog, jobVars>>

NextCancel ==
    \/ CancelCtx
    \/ SkipUnsuccessfulSchedulingKeyCheck
    \/ ScheduleCall(SearchInputs(calls + 1))
    \/ CheckRoundConstraints
    \/ AddGang
    \/ CheckConstraints
    \/ trySchedule(LabelValues)
    \/ LoopNext
    \/ LoopAttempt
    \/ AfterLoop
    \/ tryScheduleGang
    \/ tryScheduleGangAttempt
    \/ DeferredBookkeeping
    \/ Return

SpecCancel == InitSearch /\ [][NextCancel]_vars

----------------------------------------------------------------------------
(* jobiteration.go: InMemoryJobIterator, QueuedJobsIterator and its loader,
   MultiJobsIterator.  A consumer calls Next on a MultiJobsIterator built over
   one InMemoryJobIterator and one QueuedJobsIterator, in either order or over
   the QueuedJobsIterator alone; the loader runs concurrently, and the ctx given
   to NewQueuedJobsIterator may be cancelled at any moment. *)

\* batchSize of NewQueuedJobsIterator (16 in the code), scaled down.
batchSize == 2

\* Largest number of job ids GetQueueJobIds returns: above the capacity of c.
MaxJobIds == 5

\* Calls of Next the consumer makes that return no job, before it gives up.
MaxEnds == 2

\* A nil job.
Null == 0

\* ctx.Err() of a cancelled ctx, and the error of a failing repository.
ErrCanceled == "context canceled"
ErrRepo == "errGetExistingJobsByIds"

\* What Next returns: (job, nil), (nil, nil) or (nil, err).
Job(v) == [job |-> v, err |-> Nil]
None == [job |-> Null, err |-> Nil]
Error(e) == [job |-> Null, err |-> e]

\* Mutant of Capacity: room for three batches.
ThreeBatches == 3 * batchSize

\* Line 133: make(chan interfaces.LegacySchedulerJob, 2*batchSize).
Capacity == 2 * batchSize

\* The number of batches n job ids are fetched in.
NumBatches(n) == (n + batchSize - 1) \div batchSize

\* The job of the InMemoryJobIterator: not one of the queue's.
MemJobs == <<MaxJobIds + 1>>

\* The iterators a MultiJobsIterator is built over, in order.
Shapes == {<<"it">>, <<"mem", "it">>, <<"it", "mem">>}

\* The state after NewQueuedJobsIterator (lines 128-144) returned an iterator:
\* the job ids are fetched and the loader is started.
InitIter ==
    /\ InitAfter(0) /\ NoChains /\ NoRepository
    /\ \E n \in 0..MaxJobIds :
          \E nulls \in SUBSET (1..n), failAt \in 0..NumBatches(n) :
              repo = [jobIds |-> [k \in 1..n |-> k], nulls |-> nulls, failAt |-> failAt,
                      requests |-> <<>>]
    /\ it = [ctxDone |-> FALSE, err |-> Nil, c |-> <<>>, closed |-> FALSE]
    /\ loader = [pc |-> "loop", i |-> 0, batch |-> [k \in 1..batchSize |-> Null],
                 jobs |-> <<>>, k |-> 0, ret |-> Nil]
    /\ mem = [i |-> 0, jobs |-> MemJobs]
    /\ \E its \in Shapes : multi = [i |-> 0, its |-> its]
    /\ consumer = [pc |-> "idle", results |-> <<>>, queued |-> <<>>]

\* JobRepository.GetExistingJobsByIds, when it does not fail: one entry per id,
\* nil for some ids.
GetExistingJobsByIds(ids) ==
    [k \in 1..Len(ids) |-> IF ids[k] \in repo.nulls THEN Null ELSE ids[k]]

\* Line 173: the batch is full, or this is the last job id.
BatchComplete(at, n) == (at + 1) % batchSize = 0 \/ at = n - 1

\* Mutant of BatchSlice: the whole batch array is requested.
WholeBatch(batch, at) == batch

\* Line 174: batch[:i%len(batch)+1].
BatchSlice(batch, at) == SubSeq(batch, 1, (at % batchSize) + 1)

\* The ctx the iterator and its loader share was made by armadacontext.ErrGroup:
\* it is cancelled when the caller's ctx is.
CancelIteratorCtx ==
    /\ ~it.ctxDone
    /\ it' = [it EXCEPT !.ctxDone = TRUE]
    /\ UNCHANGED <<pc, roundVars, sctxVars, dbVars, gctx, resultVars,
                   gangAddedToSchedulingContext, loopVars, pre, callLog, ctxVars,
                   repo, loader, mem, multi, consumer, chainVars, repoVars>>

\* queuedJobsIteratorLoader, one iteration of the loop of lines 171-177: the job
\* id goes into the batch and a complete batch is fetched; past the last job id
\* the loader returns nil.  Returning closes the channel (line 169).
LoaderNext ==
    /\ loader.pc = "loop"
    /\ IF loader.i = Len(repo.jobIds)
       THEN /\ loader' = [loader EXCEPT !.pc = "done", !.ret = Nil]
            /\ it' = [it EXCEPT !.closed = TRUE]
            /\ UNCHANGED repo
       ELSE LET batch == [loader.batch EXCEPT ![(loader.i % batchSize) + 1] =
                                                  repo.jobIds[loader.i + 1]]
                ids == BatchSlice(batch, loader.i)
            IN IF ~BatchComplete(loader.i, Len(repo.jobIds))
               THEN /\ loader' = [loader EXCEPT !.batch = batch, !.i = @ + 1]
                    /\ UNCHANGED <<it, repo>>
               ELSE /\ repo' = [repo EXCEPT !.requests = Append(@, ids)]
                    /\ IF repo.failAt = Len(repo.requests) + 1
                       THEN /\ loader' = [loader EXCEPT !.batch = batch, !.pc = "returned",
                                                        !.ret = ErrRepo]
                            /\ it' = [it EXCEPT !.closed = TRUE]
                       ELSE /\ loader' = [loader EXCEPT !.batch = batch, !.pc = "send",
                                                        !.jobs = GetExistingJobsByIds(ids),
                                                        !.k = 1]
                            /\ UNCHANGED it
    /\ UNCHANGED <<pc, roundVars, sctxVars, dbVars, gctx, resultVars,
                   gangAddedToSchedulingContext, loopVars, pre, callLog, ctxVars,
                   mem, multi, consumer, chainVars, repoVars>>

\* The loader once the job at k is dealt with.
AfterJob ==
    IF loader.k = Len(loader.jobs)
    THEN [loader EXCEPT !.pc = "loop", !.i = @ + 1, !.jobs = <<>>, !.k = 0]
    ELSE [loader EXCEPT !.k = @ + 1]

\* Lines 178-187: a nil job is skipped; any other is sent on the channel, unless
\* ctx is done first, in which case the loader returns ctx.Err().
LoaderSend ==
    /\ loader.pc = "send"
    /\ LET job == loader.jobs[loader.k] IN
       \/ /\ job = Null
          /\ loader' = AfterJob
          /\ UNCHANGED it
       \/ /\ job # Null
          /\ it.ctxDone
          /\ loader' = [loader EXCEPT !.pc = "returned", !.ret = ErrCanceled]
          /\ it' = [it EXCEPT !.closed = TRUE]
       \/ /\ job # Null
          /\ Len(it.c) < Capacity
          /\ it' = [it EXCEPT !.c = Append(@, job)]
          /\ loader' = AfterJob
    /\ UNCHANGED <<pc, roundVars, sctxVars, dbVars, gctx, resultVars,
                   gangAddedToSchedulingContext, loopVars, pre, callLog, ctxVars,
                   repo, mem, multi, consumer, chainVars, repoVars>>

\* The error group the loader runs in (line 141) cancels ctx once the loader has
\* returned a non-nil error.
ErrGroupCancel ==
    /\ loader.pc = "returned"
    /\ loader' = [loader EXCEPT !.pc = "done"]
    /\ it' = [it EXCEPT !.ctxDone = TRUE]
    /\ UNCHANGED <<pc, roundVars, sctxVars, dbVars, gctx, resultVars,
                   gangAddedToSchedulingContext, loopVars, pre, callLog, ctxVars,
                   repo, mem, multi, consumer, chainVars, repoVars>>

\* InMemoryJobIterator.Next (lines 36-43).
InMemoryJobIteratorNext(m) ==
    IF m.i >= Len(m.jobs)
    THEN [it |-> m, v |-> Null]
    ELSE [it |-> [m EXCEPT !.i = @ + 1], v |-> m.jobs[m.i + 1]]

\* MultiJobsIterator.Next (lines 206-218) up to the point where it returns or
\* calls Next on the QueuedJobsIterator (enter).
RECURSIVE MultiJobsIteratorNext(_, _)
MultiJobsIteratorNext(m, me) ==
    IF m.i >= Len(m.its)
    THEN [multi |-> m, mem |-> me, enter |-> FALSE, r |-> None]
    ELSE IF m.its[m.i + 1] = "it"
    THEN [multi |-> m, mem |-> me, enter |-> TRUE, r |-> None]
    ELSE LET n == InMemoryJobIteratorNext(me) IN
         IF n.v = Null
         THEN MultiJobsIteratorNext([m EXCEPT !.i = @ + 1], n.it)
         ELSE [multi |-> m, mem |-> n.it, enter |-> FALSE, r |-> Job(n.v)]

\* The results that are not a job.
Ends(results) == {k \in 1..Len(results) : results[k].job = Null}

\* Mutant of ReturnsErr: the error of an earlier call is forgotten.
ForgetsErr(q) == FALSE

\* Lines 149-151: once Next has returned an error it returns it on every call.
ReturnsErr(q) == q.err # Nil

\* The consumer calls Next on the MultiJobsIterator.  A call that reaches the
\* QueuedJobsIterator returns its err when set and waits in the select otherwise.
ConsumerNext ==
    /\ consumer.pc = "idle"
    /\ Cardinality(Ends(consumer.results)) < MaxEnds
    /\ LET s == MultiJobsIteratorNext(multi, mem) IN
       /\ multi' = s.multi
       /\ mem' = s.mem
       /\ consumer' =
            IF ~s.enter THEN [consumer EXCEPT !.results = Append(@, s.r)]
            ELSE IF ReturnsErr(it)
            THEN [consumer EXCEPT !.results = Append(@, Error(it.err)),
                                  !.queued = Append(@, Error(it.err))]
            ELSE [consumer EXCEPT !.pc = "select"]
    /\ UNCHANGED <<pc, roundVars, sctxVars, dbVars, gctx, resultVars,
                   gangAddedToSchedulingContext, loopVars, pre, callLog, ctxVars,
                   repo, it, loader, chainVars, repoVars>>

\* QueuedJobsIterator.Next, the select of lines 154-163: ctx is done, or a job
\* is received, or the channel is closed and empty; in the last case the
\* MultiJobsIterator moves on to its next iterator.
QueuedJobsIteratorSelect ==
    /\ consumer.pc = "select"
    /\ \/ /\ it.ctxDone
          /\ it' = [it EXCEPT !.err = ErrCanceled]
          /\ consumer' = [consumer EXCEPT !.pc = "idle",
                                          !.results = Append(@, Error(ErrCanceled)),
                                          !.queued = Append(@, Error(ErrCanceled))]
          /\ UNCHANGED <<multi, mem>>
       \/ /\ it.c # <<>>
          /\ it' = [it EXCEPT !.c = Tail(@)]
          /\ consumer' = [consumer EXCEPT !.pc = "idle",
                                          !.results = Append(@, Job(Head(it.c))),
                                          !.queued = Append(@, Job(Head(it.c)))]
          /\ UNCHANGED <<multi, mem>>
       \/ /\ it.c = <<>> /\ it.closed
          /\ LET s == MultiJobsIteratorNext([multi EXCEPT !.i = @ + 1], mem) IN
             /\ multi' = s.multi
             /\ mem' = s.mem
             /\ consumer' = [consumer EXCEPT !.pc = "idle",
                                             !.results = Append(@, s.r),
                                             !.queued = Append(@, None)]
          /\ UNCHANGED it
    /\ UNCHANGED <<pc, roundVars, sctxVars, dbVars, gctx, resultVars,
                   gangAddedToSchedulingContext, loopVars, pre, callLog, ctxVars,
                   repo, loader, chainVars, repoVars>>

NextIter ==
    \/ CancelIteratorCtx
    \/ LoaderNext
    \/ LoaderSend
    \/ ErrGroupCancel
    \/ ConsumerNext
    \/ QueuedJobsIteratorSelect

SpecIter == InitIter /\ [][NextIter]_vars

\* The same, with the goroutines of the loader and of a consumer inside Next
\* scheduled fairly.
SpecIterFair ==
    /\ SpecIter
    /\ WF_vars(LoaderNext)
    /\ WF_vars(LoaderSend)
    /\ WF_vars(ErrGroupCancel)
    /\ WF_vars(QueuedJobsIteratorSelect)

----------------------------------------------------------------------------
(* Properties of a completed Schedule call. *)

Returned == pc = "returned"
Jscs == gctx.JobSchedulingContexts
Ops(op) == {k \in 1..Len(callLog) : callLog[k].op = op}
Committed == {k \in 1..Len(txnLog) : txnLog[k].end = "commit"}
\* The call was turned away at the round gate (the only call it made).
StoppedAtRoundGate == Len(callLog) = 1 /\ callLog[1].op = "CheckRoundConstraints"
SuccessfulIds == {Jscs[j].Job.id : j \in {k \in 1..Len(Jscs) : IsSuccessful(Jscs[k])}}

\* C1: a call that returns ok=false, err=nil has committed no write txn: every
\* txn it opened ended in Abort and the node db holds what it held before.
C1_NoCommitWhenNotOk ==
    (Returned /\ ~ok /\ err = Nil) =>
        /\ \A k \in 1..Len(txnLog) : txnLog[k].end = "abort"
        /\ Ops("Commit") = {}
        /\ nodeDbCommitted = pre.nodeDbCommitted

\* C1 witness: a not-ok call of the uniformity search that opened a txn.
C1_Witness ==
    /\ Returned /\ ~ok /\ err = Nil
    /\ gctx.NodeUniformityLabel # ""
    /\ Len(txnLog) >= 1

\* C2 as stated: after ok=false, err=nil, whichever step produced it (the round
\* gate included), the gang is tracked and every JSC bears the returned reason;
\* after ok=true the tracked gangs are the earlier ones plus this gang.
C2_AsStated ==
    (Returned /\ err = Nil) =>
        IF ok
        THEN {id[1] : id \in sctxJobs} = {id[1] : id \in pre.sctxJobs} \cup {calls}
        ELSE /\ JobIds(gctx) \subseteq sctxJobs
             /\ \A j \in 1..Len(Jscs) : Jscs[j].UnschedulableReason = unschedulableReason

\* C2 amended: after ok=false, err=nil from the gang constraints, the single
\* attempt or the uniformity search, the scheduling context tracks what it
\* tracked before plus every job of the gang, and every JSC bears the returned
\* reason; a not-ok from the round gate leaves scheduling context and JSCs as they
\* were; after ok=true the scheduling context tracks what it tracked before plus
\* the members of the gang that are successful.
C2_TrackedAfterCall ==
    (Returned /\ err = Nil) =>
        IF ok
        THEN sctxJobs = pre.sctxJobs \cup SuccessfulIds
        ELSE IF StoppedAtRoundGate
        THEN /\ sctxJobs = pre.sctxJobs
             /\ \A j \in 1..Len(Jscs) : Jscs[j].UnschedulableReason = ""
        ELSE /\ sctxJobs = pre.sctxJobs \cup JobIds(gctx)
             /\ \A j \in 1..Len(Jscs) : Jscs[j].UnschedulableReason = unschedulableReason

\* C2 witness: a gang of two failed its attempt in a round that already tracks jobs.
C2_Witness ==
    /\ Returned /\ err = Nil /\ ~ok /\ ~StoppedAtRoundGate
    /\ Len(Jscs) = 2
    /\ pre.sctxJobs # {}
    /\ Len(txnLog) >= 1

\* The tokens a completed call must have reserved on each limiter: Cardinality()
\* when placement ended ok for a gang that is not AllJobsEvicted and no error
\* came from admission, constraints or placement; none otherwise.
TokensDue ==
    IF ok /\ ~gctx.AllJobsEvicted /\ err \in {Nil, "errEvictJob"}
    THEN GangCardinality(gctx) ELSE 0

\* C3: limiter tokens are reserved iff the call ends ok for a gang with
\* AllJobsEvicted=false: then Cardinality() tokens, once on the global limiter and
\* once on the queue's limiter when the queue has a context; otherwise none.
C3_LimiterReservation ==
    Returned =>
        /\ limiterReserved = pre.limiterReserved + TokensDue
        /\ \A q \in QueuesWithContext :
              queueLimiterReserved[q] =
                  pre.queueLimiterReserved[q] + (IF q = gctx.Queue THEN TokensDue ELSE 0)
        /\ \A k \in Ops("ReserveN") : callLog[k].n = GangCardinality(gctx)
        /\ Cardinality({k \in Ops("ReserveN") : callLog[k].value = "global"})
              = (IF TokensDue > 0 THEN 1 ELSE 0)
        /\ Cardinality({k \in Ops("ReserveN") : callLog[k].value # "global"})
              = (IF TokensDue > 0 /\ gctx.Queue \in QueuesWithContext THEN 1 ELSE 0)

\* C3 witness: a new gang of two, one of them ShouldFail, scheduled in the queue
\* with a context, after an earlier call has reserved tokens.
C3_Witness ==
    /\ Returned /\ ok /\ err = Nil /\ ~gctx.AllJobsEvicted
    /\ gctx.Queue \in QueuesWithContext
    /\ Len(Jscs) = 2 /\ Jscs[2].ShouldFail
    /\ pre.limiterReserved > 0
    /\ limiterReserved = pre.limiterReserved + 2

\* C4: UnfeasibleSchedulingKeys only grows: a step never removes or overwrites an
\* entry, and a step adds one only as the bookkeeping of a call that ends ok=false,
\* err=nil for a gang of one job with a non-empty key, with the check not skipped.
C4_UnfeasibleKeysOnlyGrow ==
    [][ /\ \A k \in SchedulingKeys :
              UnfeasibleSchedulingKeys[k] # NoJob =>
                  UnfeasibleSchedulingKeys'[k] = UnfeasibleSchedulingKeys[k]
        /\ UnfeasibleSchedulingKeys' # UnfeasibleSchedulingKeys =>
              /\ pc = "defer" /\ pc' = "returned"
              /\ ~ok' /\ err' = Nil
              /\ GangCardinality(gctx') = 1
              /\ ~skipUnsuccessfulSchedulingKeyCheck
              /\ \E k \in SchedulingKeys :
                    /\ k # EmptySchedulingKey
                    /\ UnfeasibleSchedulingKeys[k] = NoJob
                    /\ UnfeasibleSchedulingKeys' =
                          [UnfeasibleSchedulingKeys EXCEPT ![k] = gctx.JobSchedulingContexts[1].Job.id]
      ]_vars

\* C4 witness: a second single-job failure met its key already registered by the
\* first, and left the first witness in place.
C4_Witness ==
    /\ Returned /\ ~ok /\ err = Nil /\ Len(Jscs) = 1
    /\ ~skipUnsuccessfulSchedulingKeyCheck
    /\ \E k \in Ops("GetSchedulingKey") :
          /\ callLog[k].n # EmptySchedulingKey
          /\ pre.UnfeasibleSchedulingKeys[callLog[k].n] = <<1, 1>>
          /\ UnfeasibleSchedulingKeys[callLog[k].n] = <<1, 1>>
    /\ calls = 2

\* C5 as stated: after any call that returns err=nil, every ShouldFail JSC has an
\* empty NodeId and the reason "job does not fit on any node", whatever the
\* outcome and the cardinality.
C5_AsStated ==
    (Returned /\ err = Nil) =>
        \A j \in 1..Len(Jscs) :
            Jscs[j].ShouldFail =>
                /\ Jscs[j].PodSchedulingContext.NodeId = ""
                /\ Jscs[j].UnschedulableReason = "job does not fit on any node"

\* C5 amended: after any call that returns err=nil every ShouldFail JSC has an
\* empty NodeId; its reason is "job does not fit on any node" when the call
\* returns ok=true, the returned reason of the gang when the call returns
\* ok=false from the gang constraints or from placement, and unwritten when the
\* call was turned away at the round gate.
C5_ShouldFailJscs ==
    (Returned /\ err = Nil) =>
        \A j \in 1..Len(Jscs) :
            Jscs[j].ShouldFail =>
                /\ Jscs[j].PodSchedulingContext.NodeId = ""
                /\ Jscs[j].UnschedulableReason =
                      (IF ok THEN "job does not fit on any node"
                       ELSE IF StoppedAtRoundGate THEN ""
                       ELSE unschedulableReason)

\* C5 witness: a gang of two scheduled, its ShouldFail member bound by the node db
\* and then cleared.
C5_Witness ==
    /\ Returned /\ err = Nil /\ ok
    /\ Len(Jscs) = 2 /\ Jscs[2].ShouldFail /\ ~Jscs[1].ShouldFail
    /\ Jscs[2].PodSchedulingContext.present
    /\ Jscs[1].PodSchedulingContext.NodeId # ""

\* C6: a call that returns ok=true, err=nil returns an empty reason and has
\* committed exactly one write txn, one in which ScheduleManyWithTxn returned ok;
\* every other txn it opened was aborted, and the node db holds what it held before
\* plus that one placement.
C6_OneCommitWhenOk ==
    (Returned /\ ok /\ err = Nil) =>
        /\ unschedulableReason = ""
        /\ Cardinality(Committed) = 1
        /\ \A k \in 1..Len(txnLog) :
              IF k \in Committed THEN txnLog[k].ok ELSE txnLog[k].end = "abort"
        /\ Cardinality(Ops("Commit")) = 1
        /\ \E k \in Committed :
              nodeDbCommitted =
                  Append(pre.nodeDbCommitted, [gang |-> calls, value |-> txnLog[k].value])

\* C6 witness: the second call of a round succeeded after an aborted attempt, the
\* first call having committed a placement too.
C6_Witness ==
    /\ Returned /\ ok /\ err = Nil
    /\ Len(txnLog) = 2 /\ txnLog[1].end = "abort" /\ txnLog[1].ok
    /\ Len(pre.nodeDbCommitted) = 1
    /\ Len(nodeDbCommitted) = 2

----------------------------------------------------------------------------
(* Properties of the uniformity search. *)

\* The attempts of the loop over the label values that have ended, and those in
\* which the gang scheduled and the mean was available.
LoopTxns == {k \in 1..Len(txnLog) : txnLog[k].by = "trySchedule" /\ txnLog[k].end # "open"}
Successes == {k \in LoopTxns : txnLog[k].ok /\ txnLog[k].mean.ok}

\* C7: an attempt of the uniformity search that schedules the gang with a mean
\* scheduled-at-priority of MinPriority is committed at once: its value is the
\* committed placement, no txn is opened after it and the search returns success
\* (so of all such values the earliest in iteration order is the one committed).
C7_MinPriorityCommitsAtOnce ==
    \A k \in Successes :
        txnLog[k].mean.sum = MinPriority * txnLog[k].mean.n =>
            /\ k = Len(txnLog)
            /\ txnLog[k].end = "commit"
            /\ \A h \in 1..(k - 1) : txnLog[h].end = "abort"
            /\ nodeDbCommitted =
                  Append(pre.nodeDbCommitted, [gang |-> calls, value |-> txnLog[k].value])
            /\ pc \in {"defer", "returned"}
            /\ ok
            /\ pc = "defer" => unschedulableReason = "" /\ err = Nil

\* C7 witness: the second value tried scheduled a gang of two at MinPriority and
\* was committed, a third value being left untried.
C7_Witness ==
    /\ Returned /\ ok /\ err = Nil
    /\ Len(Jscs) = 2
    /\ Len(txnLog) = 2 /\ txnLog[1].ok /\ txnLog[1].mean.ok
    /\ txnLog[2].mean.ok /\ txnLog[2].mean.sum = MinPriority * 2
    /\ remaining # {}

\* a <= b for means
MeanLe(a, b) == a.sum * b.n <= b.sum * a.n

----------------------------------------------------------------------------
(* Errors and reasons. *)

\* The calls of provisional admission, gang constraints and placement that
\* returned an error (the first AddGangSchedulingContext is that of line 132).
FailedCalls ==
    {k \in 1..Len(callLog) :
        /\ callLog[k].err # Nil
        /\ \/ callLog[k].op \in {"CheckConstraints", "ScheduleManyWithTxn"}
           \/ callLog[k].op = "AddGangSchedulingContext"
              /\ \A h \in 1..(k - 1) : callLog[h].op # "AddGangSchedulingContext"}

BookkeepingOps == {"ReserveN", "EvictJob", "EvictGang", "SetUnschedulableReason", "GetSchedulingKey"}

\* C9: when AddGangSchedulingContext, CheckConstraints or ScheduleManyWithTxn
\* returns an error, Schedule returns that error and the bookkeeping is skipped:
\* nothing reserved, no EvictJob or EvictGang, no re-adding, no reason written by
\* the bookkeeping, no UnfeasibleSchedulingKeys entry; every txn opened has been
\* aborted, and the scheduling context is as the provisional admission left it.
C9_ErrorSkipsBookkeeping ==
    \A k \in FailedCalls :
        Returned =>
            /\ err = callLog[k].err
            /\ k = Len(callLog) \/ (k = Len(callLog) - 1 /\ callLog[Len(callLog)].op = "Abort")
            /\ \A h \in 1..Len(callLog) : callLog[h].op \notin BookkeepingOps
            /\ Cardinality(Ops("AddGangSchedulingContext")) = 1
            /\ limiterReserved = pre.limiterReserved
            /\ queueLimiterReserved = pre.queueLimiterReserved
            /\ UnfeasibleSchedulingKeys = pre.UnfeasibleSchedulingKeys
            /\ \A j \in 1..Len(Jscs) : ~Jscs[j].ShouldFail => Jscs[j].UnschedulableReason = ""
            /\ \A j \in 1..Len(Jscs) :
                  Jscs[j].UnschedulableReason \in {"", "job does not fit on any node"}
            /\ \A t \in 1..Len(txnLog) : txnLog[t].end = "abort"
            /\ nodeDbCommitted = pre.nodeDbCommitted
            /\ sctxJobs = IF callLog[k].op = "AddGangSchedulingContext"
                          THEN pre.sctxJobs
                          ELSE pre.sctxJobs \cup JobIds(gctx)

\* C9 witness: the node db failed on the second txn of a uniformity search, after
\* an attempt that had set the reason of a ShouldFail member.
C9_Witness ==
    /\ Returned /\ err = "errNodeDb"
    /\ Len(txnLog) = 2 /\ txnLog[1].ok /\ txnLog[2].end = "abort"
    /\ Len(Jscs) = 2 /\ Jscs[2].UnschedulableReason # ""
    /\ JobIds(gctx) \subseteq sctxJobs

\* The placement step (trySchedule) was entered and has returned.
PlacementReturned ==
    /\ pc = "defer"
    /\ \/ gctx.AllJobsEvicted /\ Ops("AddGangSchedulingContext") # {}
                              /\ callLog[Len(callLog)].op # "AddGangSchedulingContext"
       \/ \E k \in Ops("CheckConstraints") : callLog[k].ok /\ callLog[k].err = Nil

IndexLookups == Ops("IndexedNodeLabelValues")

\* C10: the reason of a not-ok placement step is fixed by the path: with no
\* uniformity label, that of the failed attempt, by cardinality; with label L,
\* "uniformity label L is not indexed" when L is not indexed and "no nodes with
\* uniformity label L" when its value set is empty, no txn being opened in these
\* two cases; and "at least one job in the gang does not fit on any node"
\* otherwise.
C10_ReasonByPath ==
    (PlacementReturned /\ ~ok /\ err = Nil) =>
        IF gctx.NodeUniformityLabel = ""
        THEN /\ Len(txnLog) = 1
             /\ unschedulableReason =
                   (IF Len(Jscs) > 1
                    THEN "unable to schedule gang since minimum cardinality not met"
                    ELSE "job does not fit on any node")
        ELSE \E k \in IndexLookups :
                IF ~callLog[k].ok
                THEN /\ unschedulableReason = "uniformity label zone is not indexed"
                     /\ txnLog = <<>> /\ Ops("Txn") = {}
                ELSE IF callLog[k].n = 0
                THEN /\ unschedulableReason = "no nodes with uniformity label zone"
                     /\ txnLog = <<>> /\ Ops("Txn") = {}
                ELSE /\ unschedulableReason = "at least one job in the gang does not fit on any node"
                     /\ Successes = {}

\* C10 witness: the only value of the label is the empty string, so the search
\* fails without an attempt.
C10_Witness ==
    /\ PlacementReturned /\ ~ok /\ err = Nil
    /\ gctx.NodeUniformityLabel = "zone"
    /\ \E k \in IndexLookups : callLog[k].ok /\ callLog[k].n = 1
    /\ value = "" /\ i = 1
    /\ txnLog = <<>>
    /\ unschedulableReason = ReasonGangDoesNotFit

----------------------------------------------------------------------------
(* Frame and transactions of a Schedule call. *)

\* C13: a new gang turned away by the round gate (ok=false, err=nil) makes
\* Schedule return (false, that reason, nil) with nothing else done: no
\* AddGangSchedulingContext, EvictJob or EvictGang, no txn, no tokens reserved,
\* UnfeasibleSchedulingKeys as before and every JSC as it was built; and for a
\* gang with AllJobsEvicted neither constraints check is ever invoked.
C13_RoundGateFrame ==
    /\ (Returned /\ Ops("CheckRoundConstraints") # {}
                 /\ \E k \in Ops("CheckRoundConstraints") : ~callLog[k].ok /\ callLog[k].err = Nil) =>
          /\ ~gctx.AllJobsEvicted
          /\ ~ok /\ unschedulableReason = ReasonRoundLimit /\ err = Nil
          /\ Len(callLog) = 1
          /\ txnLog = <<>> /\ txn = "none"
          /\ sctxJobs = pre.sctxJobs
          /\ limiterReserved = pre.limiterReserved
          /\ queueLimiterReserved = pre.queueLimiterReserved
          /\ UnfeasibleSchedulingKeys = pre.UnfeasibleSchedulingKeys
          /\ nodeDbCommitted = pre.nodeDbCommitted
          /\ ~gangAddedToSchedulingContext
          /\ \A j \in 1..Len(Jscs) : Jscs[j] = NewJsc(calls, j, Jscs[j].ShouldFail)
    /\ gctx.AllJobsEvicted =>
          Ops("CheckRoundConstraints") = {} /\ Ops("CheckConstraints") = {}

\* C13 witness: the second call of a round, for a gang of two, was turned away at
\* the round gate after the first call had left jobs and tokens behind.
C13_Witness ==
    /\ Returned /\ StoppedAtRoundGate /\ ~ok /\ err = Nil
    /\ calls = 2 /\ Len(Jscs) = 2
    /\ pre.sctxJobs # {} /\ pre.limiterReserved > 0

OpenTxns == {k \in 1..Len(txnLog) : txnLog[k].end = "open"}

\* C14: at most one write txn is open at a time and it is the last one opened
\* (none is opened before the one before it has ended); none is open once
\* Schedule has returned; and Commit is called only on a txn whose
\* ScheduleManyWithTxn returned ok=true with a nil error.
C14_OneTxnAtATime ==
    /\ Cardinality(OpenTxns) <= 1
    /\ OpenTxns \subseteq {Len(txnLog)}
    /\ (txn = "open") = (OpenTxns # {})
    /\ pc \in {"returned", "idle", "defer"} => OpenTxns = {}
    /\ \A k \in Committed : txnLog[k].ok
    /\ \A k \in Ops("Commit") :
          /\ k > 1
          /\ callLog[k - 1].op = "ScheduleManyWithTxn"
          /\ callLog[k - 1].ok /\ callLog[k - 1].err = Nil
          /\ callLog[k - 1].value = callLog[k].value
    /\ Cardinality(Ops("Txn")) = Len(txnLog)
    /\ Returned => Cardinality(Ops("Txn")) = Cardinality(Ops("Commit")) + Cardinality({k \in Ops("Abort") : callLog[k].ok})

\* C14 witness: the search aborted the txn of its attempt and the node db failed
\* in the txn of the re-run, which was aborted too.
C14_Witness ==
    /\ Returned /\ err = "errNodeDb"
    /\ Len(txnLog) = 2
    /\ txnLog[1].ok /\ txnLog[1].end = "abort"
    /\ txnLog[2].by = "tryScheduleGang" /\ txnLog[2].end = "abort"

EvictJobCalls(j) == {k \in Ops("EvictJob") : callLog[k].n = j}

\* C16: after ok=true, err=nil the members of the gang the scheduling context
\* tracks are exactly the JSCs that are successful: every member that is not
\* successful has been evicted with EvictJob exactly once, no successful member
\* has been evicted.
C16_OnlySuccessfulTracked ==
    (Returned /\ ok /\ err = Nil) =>
        /\ sctxJobs \cap JobIds(gctx) = SuccessfulIds
        /\ \A j \in 1..Len(Jscs) :
              /\ IsSuccessful(Jscs[j]) =
                    (/\ Jscs[j].PodSchedulingContext.present
                     /\ Jscs[j].PodSchedulingContext.NodeId # ""
                     /\ Jscs[j].UnschedulableReason = "")
              /\ Cardinality(EvictJobCalls(j)) = (IF IsSuccessful(Jscs[j]) THEN 0 ELSE 1)
              /\ \A k \in EvictJobCalls(j) : callLog[k].ok /\ callLog[k].err = Nil
        /\ Ops("EvictGang") = {}

\* C16 witness: a gang of two scheduled; its ShouldFail member was evicted and the
\* other member is tracked.
C16_Witness ==
    /\ Returned /\ ok /\ err = Nil
    /\ Len(Jscs) = 2 /\ Jscs[2].ShouldFail /\ IsSuccessful(Jscs[1])
    /\ EvictJobCalls(2) # {} /\ EvictJobCalls(1) = {}
    /\ Jscs[1].Job.id \in sctxJobs /\ Jscs[2].Job.id \notin sctxJobs

----------------------------------------------------------------------------
(* Cancellation of a Schedule call. *)

\* ctx was cancelled while the uniformity search was running: between two
\* iterations of its loop, or during an attempt.
CancelledDuringSearch == ctxDone /\ doneAt.pc \in {"loop", "attempt"}

\* C15: if ctx is cancelled while the uniformity search is running, the search
\* attempts no further label value, the txn of the attempt in progress is
\* aborted, Schedule returns a non-nil error and the bookkeeping is not applied.
C15_CancellationObserved ==
    (Returned /\ CancelledDuringSearch) =>
        /\ err # Nil
        /\ Len(txnLog) = doneAt.txns
        /\ \A k \in 1..Len(txnLog) : txnLog[k].end = "abort"
        /\ \A h \in 1..Len(callLog) : callLog[h].op \notin BookkeepingOps

\* The call C15 is about is made, and the search goes on to commit a value first
\* tried after ctx was cancelled.
C15_Ignored ==
    /\ Returned /\ CancelledDuringSearch
    /\ ok /\ err = Nil
    /\ Len(txnLog) > doneAt.txns
    /\ txnLog[Len(txnLog)].end = "commit"
    /\ Ops("ReserveN") # {}

----------------------------------------------------------------------------
(* MultiJobsIterators over error-free iterators, nested both ways. *)

\* Largest number of jobs of an InMemoryJobIterator given to a chain.
MaxChainLen == 2

\* NewInMemoryJobIterator (lines 26-34) over the jobs first+1 .. first+n.
NewInMemoryJobIterator(first, n) ==
    [kind |-> "InMemoryJobIterator", i |-> 0, jobs |-> [k \in 1..n |-> first + k]]

\* NewMultiJobsIterator (lines 200-204).
NewMultiJobsIterator(its) == [kind |-> "MultiJobsIterator", i |-> 0, its |-> its]

\* Mutant of MovesOn: an exhausted iterator is not left.
MovesOnNever(v) == FALSE

\* Line 212: the iterator at i returned no job and no error.
MovesOn(v) == v = Null

\* JobIterator.Next on an iterator that is an InMemoryJobIterator or a
\* MultiJobsIterator over such iterators: the iterator after the call and the
\* job returned.  The error is nil throughout.
RECURSIVE JobIteratorNext(_)
JobIteratorNext(t) ==
    IF t.kind = "InMemoryJobIterator" THEN InMemoryJobIteratorNext(t)
    ELSE IF t.i >= Len(t.its) THEN [it |-> t, v |-> Null]
    ELSE LET n == JobIteratorNext(t.its[t.i + 1])
             called == [t EXCEPT !.its[t.i + 1] = n.it]
         IN IF MovesOn(n.v)
            THEN JobIteratorNext([called EXCEPT !.i = @ + 1])
            ELSE [it |-> called, v |-> n.v]

\* Three chains over iterators a, b and c of distinct jobs, each chain with its
\* own a, b and c: a then (b then c), (a then b) then c, and a, b, c.
InitChain ==
    /\ InitAfter(0) /\ NoIterator /\ NoRepository
    /\ \E la, lb, lc \in 0..MaxChainLen :
          LET a == NewInMemoryJobIterator(0, la)
              b == NewInMemoryJobIterator(la, lb)
              c == NewInMemoryJobIterator(la + lb, lc)
          IN chains = << NewMultiJobsIterator(<<a, NewMultiJobsIterator(<<b, c>>)>>),
                         NewMultiJobsIterator(<<NewMultiJobsIterator(<<a, b>>), c>>),
                         NewMultiJobsIterator(<<a, b, c>>) >>
    /\ yielded = [n \in 1..3 |-> <<>>]

\* A call of Next on one of the chains.
ChainNext(n) ==
    /\ Cardinality({k \in 1..Len(yielded[n]) : yielded[n][k] = Null}) < MaxEnds
    /\ LET r == JobIteratorNext(chains[n]) IN
       /\ chains' = [chains EXCEPT ![n] = r.it]
       /\ yielded' = [yielded EXCEPT ![n] = Append(@, r.v)]
    /\ UNCHANGED <<pc, roundVars, sctxVars, dbVars, gctx, resultVars,
                   gangAddedToSchedulingContext, loopVars, pre, callLog, ctxVars,
                   iteratorVars, repoVars>>

NextChain == \E n \in 1..3 : ChainNext(n)

SpecChain == InitChain /\ [][NextChain]_vars

----------------------------------------------------------------------------
(* The InMemoryJobRepository used by concurrent goroutines. *)

\* The jobs that may be enqueued are 1..MaxRepoJobs, each at most once.
MaxRepoJobs == 3

\* Calls each goroutine makes.
MaxCalls == 2

\* The goroutines using the repository.
Threads == {1, 2}

\* job.GetQueue() and job.GetId().
GetQueue(job) == IF job % 2 = 1 THEN "A" ELSE "B"
GetId(job) == job

\* job a goes before job b in its queue: a.SchedulingOrderCompare(b) == -1.
SchedulingOrderCompare(a, b) == IF a < b THEN -1 ELSE IF a > b THEN 1 ELSE 0

\* slices.SortFunc with the comparison of sortQueue (lines 87-91).
RECURSIVE sortQueue(_)
sortQueue(jobs) ==
    IF jobs = <<>> THEN <<>>
    ELSE LET first == CHOOSE a \in {jobs[k] : k \in 1..Len(jobs)} :
                         \A k \in 1..Len(jobs) : SchedulingOrderCompare(jobs[k], a) # -1
         IN <<first>> \o sortQueue(SelectSeq(jobs, LAMBDA b : b # first))

\* A goroutine outside any call.
Idle == [pc |-> "idle", op |-> "", arg |-> <<>>, k |-> 0, seen |-> <<>>, rv |-> <<>>,
         calls |-> 0]

\* The state after NewInMemoryJobRepository (lines 52-57): both maps are empty
\* and mu is unlocked.  A queue without entry reads as the nil slice.
InitRepo ==
    /\ InitAfter(0) /\ NoIterator /\ NoChains
    /\ jobsByQueue = [q \in Queues |-> <<>>]
    /\ jobsById = {}
    /\ mu = 0
    /\ threads = [t \in Threads |-> Idle]

\* The jobs neither enqueued nor being enqueued.
Fresh ==
    {job \in 1..MaxRepoJobs :
        /\ job \notin jobsById
        /\ \A t \in Threads :
              threads[t].op \in {"Enqueue", "EnqueueMany"} =>
                  job \notin {threads[t].arg[k] : k \in 1..Len(threads[t].arg)}}

\* A goroutine calls a method that starts with repo.mu.Lock() (lines 60, 75,
\* 103, 115).
CallLocking(t) ==
    /\ threads[t].pc = "idle" /\ threads[t].calls < MaxCalls
    /\ \E call \in
            {<<"Enqueue", <<job>>>> : job \in Fresh}
            \cup {<<"EnqueueMany", jobs>> : jobs \in {p \in Fresh \X Fresh : p[1] # p[2]}}
            \cup {<<"GetExistingJobsByIds", [k \in 1..MaxRepoJobs |-> k]>>}
            \cup {<<"GetJobIterator", <<q>>>> : q \in Queues} :
          threads' = [threads EXCEPT ![t] = [@ EXCEPT !.pc = "lock", !.op = call[1],
                                                     !.arg = call[2], !.k = 0,
                                                     !.seen = <<>>, !.rv = <<>>]]
    /\ UNCHANGED <<jobsByQueue, jobsById, mu>>
    /\ UNCHANGED <<pc, roundVars, sctxVars, dbVars, gctx, resultVars,
                   gangAddedToSchedulingContext, loopVars, pre, callLog, ctxVars,
                   iteratorVars, chainVars>>

\* A goroutine calls GetQueueJobIds (lines 93-100), which does not lock mu.
CallGetQueueJobIds(t) ==
    /\ threads[t].pc = "idle" /\ threads[t].calls < MaxCalls
    /\ \E q \in Queues :
          threads' = [threads EXCEPT ![t] = [@ EXCEPT !.pc = "load", !.op = "GetQueueJobIds",
                                                     !.arg = <<q>>, !.k = 0,
                                                     !.seen = <<>>, !.rv = <<>>]]
    /\ UNCHANGED <<jobsByQueue, jobsById, mu>>
    /\ UNCHANGED <<pc, roundVars, sctxVars, dbVars, gctx, resultVars,
                   gangAddedToSchedulingContext, loopVars, pre, callLog, ctxVars,
                   iteratorVars, chainVars>>

\* repo.mu.Lock(): the goroutine waits until mu is unlocked.
Lock(t) ==
    /\ threads[t].pc = "lock"
    /\ mu = 0
    /\ mu' = t
    /\ threads' = [threads EXCEPT ![t].pc =
                      IF threads[t].op \in {"Enqueue", "EnqueueMany"} THEN "append" ELSE "body",
                                  ![t].k = 1]
    /\ UNCHANGED <<jobsByQueue, jobsById>>
    /\ UNCHANGED <<pc, roundVars, sctxVars, dbVars, gctx, resultVars,
                   gangAddedToSchedulingContext, loopVars, pre, callLog, ctxVars,
                   iteratorVars, chainVars>>

\* Enqueue lines 77-79 and EnqueueMany lines 64-67: the job at k is appended to
\* its queue and put into jobsById.
Append_(t) ==
    /\ threads[t].pc = "append"
    /\ LET job == threads[t].arg[threads[t].k] IN
       /\ jobsByQueue' = [jobsByQueue EXCEPT ![GetQueue(job)] = Append(@, job)]
       /\ jobsById' = jobsById \cup {GetId(job)}
    /\ threads' = [threads EXCEPT ![t] =
                      IF threads[t].k = Len(threads[t].arg) THEN [@ EXCEPT !.pc = "sort"]
                      ELSE [@ EXCEPT !.k = @ + 1]]
    /\ UNCHANGED mu
    /\ UNCHANGED <<pc, roundVars, sctxVars, dbVars, gctx, resultVars,
                   gangAddedToSchedulingContext, loopVars, pre, callLog, ctxVars,
                   iteratorVars, chainVars>>

\* Enqueue line 80 and EnqueueMany lines 69-71: the updated queues are sorted.
Sort(t) ==
    /\ threads[t].pc = "sort"
    /\ LET updatedQueues == {GetQueue(threads[t].arg[k]) : k \in 1..Len(threads[t].arg)} IN
       jobsByQueue' = [q \in Queues |-> IF q \in updatedQueues THEN sortQueue(jobsByQueue[q])
                                        ELSE jobsByQueue[q]]
    /\ threads' = [threads EXCEPT ![t].pc = "unlock"]
    /\ UNCHANGED <<jobsById, mu>>
    /\ UNCHANGED <<pc, roundVars, sctxVars, dbVars, gctx, resultVars,
                   gangAddedToSchedulingContext, loopVars, pre, callLog, ctxVars,
                   iteratorVars, chainVars>>

\* GetExistingJobsByIds lines 105-111 (the jobs of the ids that exist) and
\* GetJobIterator line 117 (a clone of the queue).
Body(t) ==
    /\ threads[t].pc = "body"
    /\ threads' = [threads EXCEPT ![t].pc = "unlock",
                                  ![t].rv =
                      IF threads[t].op = "GetExistingJobsByIds"
                      THEN SelectSeq(threads[t].arg, LAMBDA id : id \in jobsById)
                      ELSE jobsByQueue[threads[t].arg[1]]]
    /\ UNCHANGED <<jobsByQueue, jobsById, mu>>
    /\ UNCHANGED <<pc, roundVars, sctxVars, dbVars, gctx, resultVars,
                   gangAddedToSchedulingContext, loopVars, pre, callLog, ctxVars,
                   iteratorVars, chainVars>>

\* The deferred repo.mu.Unlock() and the return.
Unlock(t) ==
    /\ threads[t].pc = "unlock"
    /\ mu' = 0
    /\ threads' = [threads EXCEPT ![t].pc = "idle", ![t].calls = @ + 1]
    /\ UNCHANGED <<jobsByQueue, jobsById>>
    /\ UNCHANGED <<pc, roundVars, sctxVars, dbVars, gctx, resultVars,
                   gangAddedToSchedulingContext, loopVars, pre, callLog, ctxVars,
                   iteratorVars, chainVars>>

\* Another goroutine is assigning to jobsByQueue (lines 65 and 78).
MapWriteInProgress(t) == \E u \in Threads \ {t} : threads[u].pc = "append"

\* GetQueueJobIds line 94: jobsByQueue is read, mu not held.  A read during a
\* map write of another goroutine is a data race: it yields the slice, or the
\* runtime ends the program (concurrent map read and map write).
GetQueueJobIdsLoad(t) ==
    /\ threads[t].pc = "load"
    /\ \/ threads' = [threads EXCEPT ![t].pc = "copy", ![t].k = 1,
                                     ![t].seen = jobsByQueue[threads[t].arg[1]]]
       \/ /\ MapWriteInProgress(t)
          /\ threads' = [u \in Threads |-> [threads[u] EXCEPT !.pc = "fatal"]]
    /\ UNCHANGED <<jobsByQueue, jobsById, mu>>
    /\ UNCHANGED <<pc, roundVars, sctxVars, dbVars, gctx, resultVars,
                   gangAddedToSchedulingContext, loopVars, pre, callLog, ctxVars,
                   iteratorVars, chainVars>>

\* GetQueueJobIds lines 96-99: the id of the job at k of the slice read at line
\* 94 is copied, and after the last the ids are returned.  The element is the
\* one the slice had when read, or the one the queue has there now (an append
\* may or may not have moved the queue to a new array).
GetQueueJobIdsCopy(t) ==
    /\ threads[t].pc = "copy"
    /\ LET th == threads[t]
           queue == jobsByQueue[th.arg[1]]
       IN IF th.k > Len(th.seen)
          THEN threads' = [threads EXCEPT ![t].pc = "idle", ![t].calls = @ + 1]
          ELSE \E job \in {th.seen[th.k], queue[th.k]} :
                  threads' = [threads EXCEPT ![t].rv = Append(@, GetId(job)),
                                             ![t].k = @ + 1]
    /\ UNCHANGED <<jobsByQueue, jobsById, mu>>
    /\ UNCHANGED <<pc, roundVars, sctxVars, dbVars, gctx, resultVars,
                   gangAddedToSchedulingContext, loopVars, pre, callLog, ctxVars,
                   iteratorVars, chainVars>>

NextRepo ==
    \E t \in Threads :
        \/ CallLocking(t)
        \/ CallGetQueueJobIds(t)
        \/ Lock(t)
        \/ Append_(t)
        \/ Sort(t)
        \/ Body(t)
        \/ Unlock(t)
        \/ GetQueueJobIdsLoad(t)
        \/ GetQueueJobIdsCopy(t)

SpecRepo == InitRepo /\ [][NextRepo]_vars

----------------------------------------------------------------------------
(* Properties of the job iterators. *)

\* Once an error, always that error.
Sticky(results) ==
    \A k, h \in 1..Len(results) :
        (k < h /\ results[k].err # Nil) => results[h] = results[k]

\* C11: once a call of Next has returned a non-nil error, every later call
\* returns the same error, never a job or a clean end: for the
\* QueuedJobsIterator, for the MultiJobsIterator over it, and (having no error
\* to return) for the InMemoryJobIterator, whatever the loader and the
\* cancellation do in between.
C11_ErrorIsSticky ==
    /\ Sticky(consumer.queued)
    /\ Sticky(consumer.results)
    /\ \A k \in 1..Len(consumer.results) :
          consumer.results[k].err # Nil =>
              /\ consumer.results[k] \in {consumer.queued[h] : h \in 1..Len(consumer.queued)}
              /\ multi.i < Len(multi.its) /\ multi.its[multi.i + 1] = "it"

\* C11 witness: Next returned the error twice while jobs were waiting in the
\* channel and an InMemoryJobIterator was next in the chain.
C11_Witness ==
    /\ Len(consumer.results) >= 3
    /\ consumer.results[Len(consumer.results)].err # Nil
    /\ consumer.results[Len(consumer.results) - 1].err # Nil
    /\ consumer.results[1].err = Nil
    /\ it.c # <<>>
    /\ multi.its = <<"it", "mem">>

\* The non-nil jobs the repository holds for the job ids, in their order.
Expected == SelectSeq(repo.jobIds, LAMBDA id : id \notin repo.nulls)

\* The job ids cut into consecutive batches of batchSize, the last one shorter.
Batches ==
    [b \in 1..NumBatches(Len(repo.jobIds)) |->
        SubSeq(repo.jobIds, (b - 1) * batchSize + 1,
               IF b * batchSize < Len(repo.jobIds) THEN b * batchSize ELSE Len(repo.jobIds))]

IsPrefix(a, b) == Len(a) <= Len(b) /\ a = SubSeq(b, 1, Len(a))

\* The results of a complete run over the expected jobs.
ExpectedResults == [k \in 1..Len(Expected) |-> Job(Expected[k])] \o <<None>>

\* The jobs loaded and not yet returned: in the channel, or fetched and unsent.
Undelivered ==
    it.c \o (IF loader.pc = "send"
             THEN SelectSeq(SubSeq(loader.jobs, loader.k, Len(loader.jobs)),
                            LAMBDA v : v # Null)
             ELSE <<>>)

\* C17: with no cancellation and no repository error, the calls of Next on a
\* QueuedJobsIterator return the non-nil jobs of the repository for the queue's
\* job ids, in the order of the ids, then none; the ids are requested in
\* consecutive batches of batchSize, each id in one batch, the last batch holding
\* the remaining ids only.
C17_QueuedJobsInOrder ==
    (~it.ctxDone /\ repo.failAt = 0) =>
        /\ IsPrefix(consumer.queued, ExpectedResults)
        /\ IsPrefix(repo.requests, Batches)
        /\ loader.pc = "done" => repo.requests = Batches
        /\ LET returned == [k \in 1..Cardinality({h \in 1..Len(consumer.queued) :
                                                    consumer.queued[h].job # Null}) |->
                              consumer.queued[k].job]
           IN IsPrefix(returned \o Undelivered, Expected)
        /\ loader.pc = "done" =>
              [k \in 1..Len(Undelivered) |-> Job(Undelivered[k])] \o <<None>>
                 = SubSeq(ExpectedResults, Len(ExpectedResults) - Len(Undelivered),
                          Len(ExpectedResults))
              \/ consumer.queued = ExpectedResults

\* C17 witness: five job ids (more than the channel holds), one of them with a
\* nil job, were fetched in three batches and returned, then none.
C17_Witness ==
    /\ ~it.ctxDone /\ repo.failAt = 0
    /\ Len(repo.jobIds) = 2 * batchSize + 1 /\ repo.nulls = {2}
    /\ Len(repo.requests) = 3
    /\ repo.requests[3] = <<2 * batchSize + 1>>
    /\ consumer.queued = ExpectedResults

\* C19: when GetExistingJobsByIds has returned an error to the loader, no call
\* of Next on the QueuedJobsIterator returns a clean end (none with a nil error).
C19_FailureNeverCleanEnd ==
    loader.ret = ErrRepo =>
        \A k \in 1..Len(consumer.queued) : consumer.queued[k] # None

\* The repository failed on the second batch; the consumer got the jobs of the
\* first and then a clean end, from the channel the returning loader closed.
C19_MistakenForEnd ==
    /\ loader.ret = ErrRepo /\ repo.failAt = 2 /\ repo.nulls = {}
    /\ multi.its = <<"it">>
    /\ consumer.queued = <<Job(1), Job(2), None>>
    /\ consumer.results = <<Job(1), Job(2), None, None>>

\* The loader has returned: its deferred close of the channel has run.
LoaderStopped == loader.pc \in {"returned", "done"}

\* C18: the channel never holds more than 2 x batchSize jobs and is closed
\* whenever the loader has stopped; with the goroutines scheduled fairly, if the
\* consumer keeps calling Next or ctx is cancelled the loader eventually stops,
\* and a consumer waiting in Next eventually gets its result.
C18_LoaderBoundedAndTerminates ==
    /\ [](Len(it.c) <= 2 * batchSize)
    /\ [](LoaderStopped => it.closed)
    /\ [](it.closed => LoaderStopped)
    /\ (WF_vars(ConsumerNext) \/ <>it.ctxDone) => <>LoaderStopped
    /\ (consumer.pc = "select") ~> (consumer.pc = "idle")

\* C18 witness: the channel is full and the loader waits with one more job to
\* send, ctx not being cancelled.
C18_Witness ==
    /\ Len(it.c) = 2 * batchSize
    /\ loader.pc = "send"
    /\ loader.jobs[loader.k] # Null
    /\ ~it.ctxDone
    /\ consumer.pc = "idle"

\* The jobs of the InMemoryJobIterators under iterator t, in the order given.
RECURSIVE JobsOf(_)
JobsOf(t) ==
    IF t.kind = "InMemoryJobIterator" THEN t.jobs
    ELSE IF t.its = <<>> THEN <<>>
    ELSE JobsOf(t.its[1]) \o JobsOf([t EXCEPT !.its = Tail(@)])

\* Iterator t has nothing left and never will.
RECURSIVE IsExhausted(_)
IsExhausted(t) ==
    IF t.kind = "InMemoryJobIterator" THEN t.i >= Len(t.jobs)
    ELSE \A k \in 1..Len(t.its) : IsExhausted(t.its[k])

\* C12: a MultiJobsIterator over error-free iterators returns the jobs of its
\* iterators in the order given, each exhausted or empty iterator left for good,
\* and then none on every call; so chaining a with the chain of b and c returns
\* what chaining the chain of a and b with c returns.
C12_ChainIsConcatenation ==
    /\ \A n \in 1..Len(chains) :
          /\ \A k \in 1..Len(yielded[n]) :
                yielded[n][k] = IF k <= Len(JobsOf(chains[n])) THEN JobsOf(chains[n])[k]
                                ELSE Null
          /\ \A k \in 1..Len(chains[n].its) :
                k <= chains[n].i => IsExhausted(chains[n].its[k])
    /\ \A n, o \in 1..Len(chains) :
          /\ JobsOf(chains[n]) = JobsOf(chains[o])
          /\ \A k \in 1..Len(yielded[n]) :
                k <= Len(yielded[o]) => yielded[n][k] = yielded[o][k]

\* C12 witness: with a and c of two jobs and b empty, both nestings returned the
\* four jobs and then none twice.
C12_Witness ==
    /\ Len(chains) = 3
    /\ yielded[1] = <<1, 2, 3, 4, Null, Null>>
    /\ yielded[2] = yielded[1]
    /\ chains[1].its[2].its[1].jobs = <<>>
    /\ chains[2].its[1].its[2].jobs = <<>>

\* The steps that read or write jobsByQueue or jobsById.
AccessesMaps(t) == threads[t].pc \in {"append", "sort", "body", "load", "copy"}

\* C20: a goroutine inside a method of the InMemoryJobRepository reads and
\* writes jobsByQueue and jobsById only while it holds mu.
C20_MapsAccessedUnderMu ==
    \A t \in DOMAIN threads : AccessesMaps(t) => mu = t

\* GetQueueJobIds returned the id of job 3 twice for queue A, which never held
\* a job twice, while the other goroutine, holding mu, has appended job 1 to the
\* queue holding job 3 and sorted it.
C20_RacingRead ==
    \E t, u \in DOMAIN threads :
        /\ threads[t].op = "GetQueueJobIds" /\ threads[t].pc = "idle"
        /\ threads[t].rv = <<3, 3>>
        /\ threads[u].op = "Enqueue" /\ threads[u].pc = "unlock" /\ mu = u
        /\ jobsByQueue["A"] = <<1, 3>>

====
